---- MODULE Spec2Model ----
(***************************************************************************)
(* Ambient email agent: the FastAPI application (src/src/app.py), the      *)
(* three-node pipeline it drives (src/src/graph) and the in-memory queue   *)
(* PENDING of proposals that wait for a human decision.                    *)
(*                                                                         *)
(* A worker serves one request at a time, from its arrival to its          *)
(* response.  run_email and approve are `async def` handlers without any   *)
(* await: each runs on the single event loop from its first to its last    *)
(* statement.  pending is a plain `def` handler: it runs on a thread-pool  *)
(* thread, beside the event loop.  A field of a request is drawn where the *)
(* handler first reads it.  When a handler has answered, its request, its  *)
(* locals and its response are dropped before anything else happens        *)
(* (Close), so that the state keeps what the process keeps.                *)
(* Texts are sequences of string pieces, so that concatenation and the     *)
(* address extraction are computed, not assumed.                           *)
(***************************************************************************)
EXTENDS Integers, Sequences, FiniteSets, TLC

VARIABLES
    hitl_secret,   \* os.getenv("HITL_SECRET") of the server process
    PENDING,       \* app.PENDING: the dict, as its entry slots in insertion order
    loop,          \* the worker whose handler occupies the event loop, or NoWorker
    nreq,          \* number of requests that have arrived
    kind,          \* kind[w]: the endpoint of the request worker w serves
    pc,            \* pc[w]: position of that request's handler
    item,          \* item[w]: the RunEmailRequest body
    areq,          \* areq[w]: the ApproveRequest body and the x-hitl-secret header
    state,         \* state[w]: the EmailState of the request's graph run
    intr,          \* intr[w]: approve's local `intr`, the popped entry
    iter,          \* iter[w]: pending's iterator over PENDING.items()
    resp,          \* resp[w]: the HTTP response of the request
    sent,          \* sent[w]: the gm.send_email calls the request has made
    logged,        \* logged[w]: the email_history rows the request has inserted
    registered,    \* registered[t]: how many times an entry was stored under t
    removals,      \* removals[t]: how many times approve popped t
    send_count,    \* send_count[t]: how many gm.send_email calls were made for t
    send_failed,   \* the thread ids for which gm.send_email returned None
    vip_contacts,  \* the rows of the vip_contacts table, in insertion order
    vip_call,      \* the last call of a vip function of memory_store, its result
    vip_added,     \* vip_added[u, e]: how many add_vip_contact(u, e) returned True
    seen,          \* ambient_loop: the set `seen` of the polling process
    ids,           \* ambient_loop: the last list gm.list_recent_messages returned
    new_emails,    \* ambient_loop: the ids of that list that were not in seen
    taken,         \* ambient_loop: how many ids of new_emails the for loop has taken
    processed,     \* processed[m]: the outcomes of the process_message(m) calls
    polls,         \* ambient_loop: number of gm.list_recent_messages calls made
    running        \* ambient_loop: FALSE when the polling process has ended

\* the database's VIP table and the polling process live beside the server
vip_vars == <<vip_contacts, vip_call, vip_added>>
loop_vars == <<seen, ids, new_emails, taken, processed, polls, running>>

vars == <<hitl_secret, PENDING, loop, nreq, kind, pc, item, areq, state, intr,
          iter, resp, sent, logged, registered, removals, send_count,
          send_failed, vip_vars, loop_vars>>

-----------------------------------------------------------------------------
(* Bounds and input domains *)

MaxRequests == 4
SuspendRequests == 3
ClassifyRequests == 2
RegisterRequests == 2
PipelineRequests == 2
NumWorkers == 2
MaxVipAdds == 2
MaxPolls == 3

Workers == 1..NumWorkers
NoWorker == 0

None == "<None>"
ConfiguredSecret == "s3cret"
HeaderValues == {ConfiguredSecret, "wrong", None}

EmailIds == {"m1", "m2"}
Suffixes == {"0a", "0b"}
Tokens == {<<e, s>> : e \in EmailIds, s \in Suffixes}
NoToken == <<"", "">>

AliceAddr == "alice@example.com"
BobAddr == "bob@example.com"
Addresses == {AliceAddr, BobAddr}
Senders == {<<"Alice <", AliceAddr, ">">>, <<BobAddr>>}
\* From headers that hold no address: an empty one, and a name alone
BareSenders == {<<>>, <<"undisclosed sender">>}
Subjects == {<<"Hello">>}
VipContacts == {AliceAddr}

\* memory_store callers: the server's user and one other; the priorities in use
AppUser == "u_local"
Users == {AppUser, "test_user"}
VipEmails == {<<AliceAddr>>, <<BobAddr>>}
Priorities == {1, 2}
NoVipCall == [op |-> "", user_id |-> "", email |-> <<>>, ok |-> FALSE,
              returned |-> FALSE, listed |-> <<>>]

\* the message ids the Gmail listing can return to the polling process, and
\* the lists it can return: ids of distinct messages, none when the call
\* failed or the mailbox is empty
LoopIds == {"m1", "m2", "m3"}
Listings ==
    {l \in UNION {[1..n -> LoopIds] : n \in 0..Cardinality(LoopIds)} :
        \A i, j \in DOMAIN l : l[i] = l[j] => i = j}

\* how a call of process_message ends:
\*   fetch_failed:  gm.get_message returned None
\*   filtered:      should_process_email said no
\*   submitted:     POST /run-email answered 2xx
\*   api_error:     POST /run-email answered another status
\*   request_error: requests.post or res.json() raised; caught in the function
\*   loop_error:    a ValueError, OSError or RuntimeError left the function;
\*                  caught by the loop, which gives up the rest of the batch
\*   crash:         another exception left the function and ends the process
ProcessOutcomes == {"fetch_failed", "filtered", "submitted", "api_error",
                    "request_error", "loop_error", "crash"}

Labels == {"needs_reply", "schedule", "fyi", "spam"}
ModelReply == <<"Sure, Tuesday works.">>
EditText == <<"edited">>
Fields == {"to", "subject", "body"}

-----------------------------------------------------------------------------
(* Text helpers *)

\* gmail_service.extract_sender_email: the first address in the header,
\* or the header itself when it holds none.
RECURSIVE FirstAddress(_)
FirstAddress(s) ==
    IF s = <<>> THEN <<>>
    ELSE IF Head(s) \in Addresses THEN <<Head(s)>>
    ELSE FirstAddress(Tail(s))

extract_sender_email(sender) ==
    LET m == FirstAddress(sender) IN IF m # <<>> THEN m ELSE sender

\* "Re: %s" % subject
ReSubject(subject) == <<"Re: ">> \o subject

-----------------------------------------------------------------------------
(* The dict PENDING.  A CPython dict keeps its entries in insertion order; *)
(* a deleted key leaves a hole, a stored key takes the slot it already has *)
(* or a new slot at the end.                                               *)

NoProposal ==
    [to |-> <<>>, subject |-> <<>>, body |-> <<>>,
     original_sender |-> <<>>, original_subject |-> <<>>]
NoPayload == [tool |-> "", priority |-> 0, is_vip |-> FALSE, proposal |-> NoProposal]
NoEntry == [value |-> NoPayload, triage |-> "", priority |-> 0, is_vip |-> FALSE]
Hole == [key |-> NoToken, live |-> FALSE, entry |-> NoEntry]

LiveSlots(d) == {i \in DOMAIN d : d[i].live}
Keys(d) == {d[i].key : i \in LiveSlots(d)}
Contains(d, k) == k \in Keys(d)
SlotOf(d, k) == CHOOSE i \in LiveSlots(d) : d[i].key = k
Lookup(d, k) == d[SlotOf(d, k)].entry
Used(d) == Cardinality(LiveSlots(d))

\* PENDING[k] = e
SetItem(d, k, e) ==
    IF Contains(d, k)
    THEN [d EXCEPT ![SlotOf(d, k)].entry = e]
    ELSE Append(d, [key |-> k, live |-> TRUE, entry |-> e])

\* a variant of pop that returns the entry and leaves it in the dict
PopItem_Keeps(d, k) == d

\* PENDING.pop(k), for a key that is present
PopItem(d, k) == [d EXCEPT ![SlotOf(d, k)] = Hole]

-----------------------------------------------------------------------------
(* genai_service: the classifier and the drafter.  The Gemini call is the  *)
(* collaborator; its answer is an input.                                   *)

Raised == "<raised>"
Markers == {"spam", "schedule", "needs_reply"}

\* What client.models.generate_content can do when asked to classify:
\*   json:    the text parses as a JSON object with this email_type
\*   notobj:  the text parses as JSON that is no object of strings
\*            (result.get / .lower() raise AttributeError)
\*   text:    the text is no JSON; it mentions these label names
\*   error:   the call raises a ValueError, RuntimeError or ConnectionError;
\*            `markers` are the kinds of keyword the subject and body hold
\*   fatal:   the call raises another exception
ClassifierAnswers ==
    [kind : {"json"}, email_type : Labels \cup {"urgent"}, mentions : {{}}, markers : {{}}]
    \cup [kind : {"notobj", "fatal"}, email_type : {""}, mentions : {{}}, markers : {{}}]
    \cup [kind : {"text"}, email_type : {""}, mentions : SUBSET Labels, markers : {{}}]
    \cup [kind : {"error"}, email_type : {""}, mentions : {{}}, markers : SUBSET Markers]

\* classify_email, lines 119-130: the label named in a text that is no JSON
TextLabel(mentions) ==
    IF "needs_reply" \in mentions THEN "needs_reply"
    ELSE IF "schedule" \in mentions THEN "schedule"
    ELSE IF "spam" \in mentions THEN "spam"
    ELSE "fyi"

\* a variant of the keyword rules that looks for a needed reply first
HeuristicLabel_NeedsReplyFirst(markers) ==
    IF "needs_reply" \in markers THEN "needs_reply"
    ELSE IF "spam" \in markers THEN "spam"
    ELSE IF "schedule" \in markers THEN "schedule"
    ELSE "fyi"

\* classify_email, lines 156-163: the keyword rules
HeuristicLabel(markers) ==
    IF "spam" \in markers THEN "spam"
    ELSE IF "schedule" \in markers THEN "schedule"
    ELSE IF "needs_reply" \in markers THEN "needs_reply"
    ELSE "fyi"

\* classify_email: a label, or Raised when an exception leaves the function
classify_email(answer) ==
    CASE answer.kind = "json" ->
            IF answer.email_type \in Labels THEN answer.email_type ELSE "fyi"
      [] answer.kind = "notobj" -> Raised
      [] answer.kind = "text" -> TextLabel(answer.mentions)
      [] answer.kind = "error" -> HeuristicLabel(answer.markers)
      [] answer.kind = "fatal" -> Raised

ThankYouDraft == <<"Thank you for your email. I will review it and get back to you soon.">>
ErrorDraft == <<"Error generating reply. Please review manually.">>
NoActionDraft == <<"No action needed.">>

\* What generate_content can do when asked to draft: a text, a text of
\* white space only, an empty text, an error draft_reply catches, or an
\* error it lets through.
DrafterAnswers == {"text", "blank", "empty", "caught_error", "other_error"}

\* a variant of draft_reply that returns the empty string for an error it
\* catches
draft_reply_EmptyOnError(answer) ==
    CASE answer = "text" -> ModelReply
      [] answer = "blank" -> <<>>
      [] answer = "empty" -> ThankYouDraft
      [] answer = "caught_error" -> <<>>
      [] answer = "other_error" -> <<Raised>>

\* draft_reply: the draft, or <<Raised>>; `if reply` lets a text of white
\* space through and reply.strip() makes it the empty string
draft_reply(answer) ==
    CASE answer = "text" -> ModelReply
      [] answer = "blank" -> <<>>
      [] answer = "empty" -> ThankYouDraft
      [] answer = "caught_error" -> ThankYouDraft
      [] answer = "other_error" -> <<Raised>>

-----------------------------------------------------------------------------
(* memory_store *)

\* the table as seed_data.py leaves it: the user's VIP contacts, priority 2
SeededContacts ==
    LET a == CHOOSE x \in VipContacts : TRUE
    IN <<[user_id |-> AppUser, email |-> <<a>>, priority |-> 2]>>

\* SELECT 1 FROM vip_contacts WHERE user_id=:u AND email=:e
VipRows(table, user, email) ==
    {i \in DOMAIN table : table[i].user_id = user /\ table[i].email = email}

\* is_vip_contact: a row for this exact address; False when the query fails
is_vip_contact(email, dbOk) == dbOk /\ VipRows(vip_contacts, AppUser, email) # {}

\* INSERT without the ON CONFLICT clause on a table without UNIQUE(user_id, email)
Upsert_AlwaysInserts(table, user, email, priority) ==
    Append(table, [user_id |-> user, email |-> email, priority |-> priority])

\* INSERT ... ON CONFLICT(user_id, email) DO UPDATE SET ... priority=:p
Upsert(table, user, email, priority) ==
    IF VipRows(table, user, email) # {}
    THEN [i \in DOMAIN table |->
             IF i \in VipRows(table, user, email)
             THEN [table[i] EXCEPT !.priority = priority]
             ELSE table[i]]
    ELSE Append(table, [user_id |-> user, email |-> email, priority |-> priority])

\* SELECT email ... WHERE user_id=:u ORDER BY priority DESC, name (the names
\* are not kept: rows of one priority stay in insertion order)
RECURSIVE EmailsOf(_)
EmailsOf(rows) ==
    IF rows = <<>> THEN <<>> ELSE <<Head(rows).email>> \o EmailsOf(Tail(rows))

SelectContacts(table, user) ==
    LET of(p) == SelectSeq(table, LAMBDA r : r.user_id = user /\ r.priority = p)
    IN EmailsOf(of(2) \o of(1))

\* log_email_action: appends a row (of which the model keeps the email id,
\* the triage result and the action); a database error is logged and swallowed
log_email_action(rows, it, triage, action, dbOk) ==
    IF dbOk
    THEN Append(rows, [email_id |-> it.email_id, triage_result |-> triage,
                       action_taken |-> action])
    ELSE rows

-----------------------------------------------------------------------------
(* graph/nodes.py: the three nodes, as functions of the EmailState *)

NoItem == [email_id |-> "", email_subject |-> <<>>, email_sender |-> <<>>]

\* the EmailState before any node has run; "" and <<>> stand for an absent
\* key.  Beside it the run notes what its collaborators did: the kind of the
\* classifier's answer, the drafter's answer ("" when it was not called),
\* whether the drafter took the sender for a VIP contact, the way the
\* runtime surfaced the interrupt, and the nodes that ran; where the
\* classifier is under study, also the kinds of keyword the message holds.
InitialState ==
    [triage |-> "", proposed_action |-> "", is_vip |-> FALSE, priority |-> 0,
     draft |-> <<>>, hitl_payload |-> NoPayload, hitl_thread_id |-> NoToken,
     surface |-> "", classifier |-> "", drafter |-> "", ran |-> <<>>,
     markers |-> {}, vip_context |-> FALSE]

ProposedAction(label) ==
    IF label = "needs_reply" THEN "send_email"
    ELSE IF label = "schedule" THEN "create_event"
    ELSE "none"

\* a variant of node_triage whose except clause leaves is_vip as the try
\* block set it
node_triage_KeepsVip(st, it, answer, vipDbOk) ==
    LET is_vip == is_vip_contact(extract_sender_email(it.email_sender), vipDbOk)
        label == classify_email(answer)
    IN  IF label = Raised
        THEN [st EXCEPT !.triage = "fyi", !.proposed_action = "none",
                        !.is_vip = is_vip, !.priority = 1]
        ELSE [st EXCEPT !.triage = label, !.proposed_action = ProposedAction(label),
                        !.is_vip = is_vip, !.priority = IF is_vip THEN 2 ELSE 1]

\* a variant of node_triage without its except clause: what classify_email
\* raises leaves the node
node_triage_Uncaught(st, it, answer, vipDbOk) ==
    LET is_vip == is_vip_contact(extract_sender_email(it.email_sender), vipDbOk)
        label == classify_email(answer)
    IN  IF label = Raised
        THEN [st EXCEPT !.triage = Raised]
        ELSE [st EXCEPT !.triage = label, !.proposed_action = ProposedAction(label),
                        !.is_vip = is_vip, !.priority = IF is_vip THEN 2 ELSE 1]

\* node_triage; its except clause (lines 78-85) catches every Exception, so
\* the triage it returns is never Raised
node_triage(st, it, answer, vipDbOk) ==
    LET is_vip == is_vip_contact(extract_sender_email(it.email_sender), vipDbOk)
        label == classify_email(answer)
    IN  IF label = Raised
        THEN [st EXCEPT !.triage = "fyi", !.proposed_action = "none",
                        !.is_vip = FALSE, !.priority = 1]
        ELSE [st EXCEPT !.triage = label, !.proposed_action = ProposedAction(label),
                        !.is_vip = is_vip, !.priority = IF is_vip THEN 2 ELSE 1]

\* node_agent; profileOk: get_profile returned.  Its except clause (lines
\* 136-139) catches every Exception, so the draft it returns is never
\* <<Raised>>
node_agent(st, profileOk, answer) ==
    IF st.triage = "needs_reply"
    THEN IF profileOk /\ draft_reply(answer) # <<Raised>>
         THEN [st EXCEPT !.draft = draft_reply(answer)]
         ELSE [st EXCEPT !.draft = ErrorDraft]
    ELSE [st EXCEPT !.draft = NoActionDraft]

\* draft_reply line 189: `vip_contacts and sender in vip_contacts`, the
\* sender being the From header as it came
VipContext(sender, vip_emails) ==
    vip_emails # <<>> /\ \E i \in DOMAIN vip_emails : vip_emails[i] = sender

\* node_agent lines 107-108: the emails get_vip_contacts returned (none when
\* its query failed)
vip_emails_of(vipListOk) ==
    IF vipListOk THEN SelectContacts(vip_contacts, AppUser) ELSE <<>>

\* node_agent lines 104-111: draft_reply is called for a needs_reply message
\* once get_profile has returned
DrafterCalled(st, profileOk) == st.triage = "needs_reply" /\ profileOk

\* node_agent writes the draft_generated row when draft_reply returned
AgentLogs(st, profileOk, answer) ==
    st.triage = "needs_reply" /\ profileOk /\ draft_reply(answer) # <<Raised>>

\* a variant of the gate that does not look at the proposed action
GateFires_AnyAction(st) == st.draft # <<>>

\* node_sensitive line 161, and run_email line 171
GateFires(st) == st.proposed_action = "send_email" /\ st.draft # <<>>

\* node_sensitive lines 166-181
HitlPayload(st, it) ==
    [tool |-> "send_email", priority |-> st.priority, is_vip |-> st.is_vip,
     proposal |-> [to |-> extract_sender_email(it.email_sender),
                   subject |-> ReSubject(it.email_subject),
                   body |-> st.draft,
                   original_sender |-> it.email_sender,
                   original_subject |-> it.email_subject]]

\* a variant that addresses the reply to the From header as it came
FallbackPayload_RawSender(st, it) ==
    [tool |-> "send_email", priority |-> st.priority, is_vip |-> st.is_vip,
     proposal |-> [to |-> it.email_sender,
                   subject |-> ReSubject(it.email_subject),
                   body |-> st.draft,
                   original_sender |-> it.email_sender,
                   original_subject |-> it.email_subject]]

\* run_email lines 172-188: the payload rebuilt from the final state
FallbackPayload(st, it) ==
    LET to_email == extract_sender_email(it.email_sender)
    IN [tool |-> "send_email", priority |-> st.priority, is_vip |-> st.is_vip,
        proposal |-> [to |-> IF to_email # <<>> THEN to_email ELSE it.email_sender,
                      subject |-> ReSubject(it.email_subject),
                      body |-> st.draft,
                      original_sender |-> it.email_sender,
                      original_subject |-> it.email_subject]]

\* How the graph runtime hands an interrupt to the caller of graph.stream:
\*   event: a streamed step carries "__interrupt__"
\*   stash: the last streamed state carries hitl_payload and hitl_thread_id
\*   final: the last streamed state is the state the agent node left
Surfaces == {"event", "stash", "final"}

\* What a streamed step that carries "__interrupt__" holds beside it:
\*   state: the keys of the run's state
\*   bare:  nothing, so that step.get(key) is None for every key of the state
StepShapes == {"state", "bare"}

\* the step run_email names `last` when it meets "__interrupt__" in it
InterruptStep(st, shape) == IF shape = "state" THEN st ELSE InitialState

-----------------------------------------------------------------------------
(* Requests and responses *)

NoEdits == [keys |-> {}, to |-> <<>>, subject |-> <<>>, body |-> <<>>]
\* ApproveRequest.edits: any subset of the three fields, each set to EditText
EditsOf(ks) ==
    [keys |-> ks,
     to |-> IF "to" \in ks THEN EditText ELSE <<>>,
     subject |-> IF "subject" \in ks THEN EditText ELSE <<>>,
     body |-> IF "body" \in ks THEN EditText ELSE <<>>]
\* edits.get(k, default)
EditsGet(edits, k, default) == IF k \in edits.keys THEN edits[k] ELSE default

\* The ApproveRequest and its header.  What the registry held for thread_id
\* is noted beside it: at arrival, whether it was pending, how often it had
\* been registered, popped and sent, and whether a send of it had failed;
\* at the handler's lookup, whether it was there.
NoApprove ==
    [thread_id |-> NoToken, approved |-> FALSE, edits |-> NoEdits, secret |-> None,
     pending_at_arrival |-> FALSE, registered_at_arrival |-> 0,
     removals_at_arrival |-> 0, send_count_at_arrival |-> 0,
     failed_at_arrival |-> FALSE, live_at_lookup |-> FALSE]
\* pending's iterator: its position, the size it noted, what it has yielded;
\* beside it, the keys PENDING held and the pops counted when it was made
NoIter ==
    [pos |-> 0, used |-> 0, out |-> <<>>, keys_at_start |-> {},
     removals_at_start |-> [t \in Tokens |-> 0],
     registered_at_start |-> [t \in Tokens |-> 0]]
NoResp ==
    [code |-> 0, status |-> "", thread_id |-> NoToken, payload |-> NoPayload,
     message_id |-> "", message |-> "", items |-> <<>>,
     state |-> InitialState]

Response(code, status) == [NoResp EXCEPT !.code = code, !.status = status]
Interrupted(t, payload) ==
    [NoResp EXCEPT !.code = 200, !.status = "INTERRUPTED",
                   !.thread_id = t, !.payload = payload]

\* gm.send_email returns the message id, "" when the API's answer carries no
\* id, or None when building or sending the message failed; it never raises.
MessageId == "msg-1"
SendResults == {MessageId, "", None}
Truthy(x) == x # None /\ x # ""

InitWith(secret) ==
    /\ hitl_secret = secret
    /\ PENDING = <<>>
    /\ loop = NoWorker
    /\ nreq = 0
    /\ kind = [w \in Workers |-> ""]
    /\ pc = [w \in Workers |-> "idle"]
    /\ item = [w \in Workers |-> NoItem]
    /\ areq = [w \in Workers |-> NoApprove]
    /\ state = [w \in Workers |-> InitialState]
    /\ intr = [w \in Workers |-> NoEntry]
    /\ iter = [w \in Workers |-> NoIter]
    /\ resp = [w \in Workers |-> NoResp]
    /\ sent = [w \in Workers |-> <<>>]
    /\ logged = [w \in Workers |-> <<>>]
    /\ registered = [t \in Tokens |-> 0]
    /\ removals = [t \in Tokens |-> 0]
    /\ send_count = [t \in Tokens |-> 0]
    /\ send_failed = {}
    /\ vip_contacts = SeededContacts
    /\ vip_call = NoVipCall
    /\ vip_added = [k \in Users \X VipEmails |->
                       IF VipRows(SeededContacts, k[1], k[2]) # {} THEN 1 ELSE 0]
    /\ seen = {}
    /\ ids = <<>>
    /\ new_emails = <<>>
    /\ taken = 0
    /\ processed = [m \in LoopIds |-> <<>>]
    /\ polls = 0
    /\ running = TRUE

\* the server started with HITL_SECRET set
Init == InitWith(ConfiguredSecret)

-----------------------------------------------------------------------------
(* Arrival of requests, and the end of one *)

\* no answered request waits to be closed
Settled == \A v \in Workers : pc[v] # "done"

\* the handler of w's request, for endpoint k, stands at this position
At(w, k, position) ==
    /\ Settled
    /\ kind[w] = k
    /\ pc[w] = position

\* a request for endpoint k arrives and the idle worker of lowest number
\* takes it
Arrives(w, k, position, env) ==
    /\ Settled
    /\ nreq < env.requests
    /\ pc[w] = "idle"
    /\ \A v \in Workers : v < w => pc[v] # "idle"
    /\ nreq' = nreq + 1
    /\ kind' = [kind EXCEPT ![w] = k]
    /\ pc' = [pc EXCEPT ![w] = position]

\* POST /run-email
ArriveRunEmail(w, env) ==
    /\ Arrives(w, "run_email", "arrived", env)
    /\ UNCHANGED <<vip_vars, loop_vars, hitl_secret, PENDING, loop, item, areq, state, intr, iter,
                   resp, sent, logged, registered, removals,
                   send_count, send_failed>>

\* POST /approve, naming thread_id t
ArriveApprove(w, env) ==
    /\ Arrives(w, "approve", "arrived", env)
    /\ \E t \in Tokens :
          areq' = [areq EXCEPT ![w] =
                      [NoApprove EXCEPT !.thread_id = t,
                                        !.pending_at_arrival = Contains(PENDING, t),
                                        !.registered_at_arrival = registered[t],
                                        !.removals_at_arrival = removals[t],
                                        !.send_count_at_arrival = send_count[t],
                                        !.failed_at_arrival = t \in send_failed]]
    /\ UNCHANGED <<vip_vars, loop_vars, hitl_secret, PENDING, loop, item, state, intr, iter, resp,
                   sent, logged, registered, removals,
                   send_count, send_failed>>

\* the handler has answered: the response leaves and the request, the
\* handler's locals and the response are gone from the process
Close(w) ==
    /\ pc[w] = "done"
    /\ kind' = [kind EXCEPT ![w] = ""]
    /\ pc' = [pc EXCEPT ![w] = "idle"]
    /\ item' = [item EXCEPT ![w] = NoItem]
    /\ areq' = [areq EXCEPT ![w] = NoApprove]
    /\ state' = [state EXCEPT ![w] = InitialState]
    /\ intr' = [intr EXCEPT ![w] = NoEntry]
    /\ iter' = [iter EXCEPT ![w] = NoIter]
    /\ resp' = [resp EXCEPT ![w] = NoResp]
    /\ sent' = [sent EXCEPT ![w] = <<>>]
    /\ logged' = [logged EXCEPT ![w] = <<>>]
    /\ UNCHANGED <<vip_vars, loop_vars, hitl_secret, PENDING, loop, nreq, registered, removals,
                   send_count, send_failed>>

-----------------------------------------------------------------------------
(* The event loop: one async handler at a time *)

\* a variant in which every handler runs on a thread of its own
LoopIsFree_Threads == TRUE

\* no handler is running on the loop
LoopIsFree == loop = NoWorker

\* the loop takes up the handler of w's request
Enters(w, k) ==
    /\ At(w, k, "arrived")
    /\ LoopIsFree

\* the handler goes on: the loop stays with it
Holds(w) == loop' = w

\* the handler returns or raises: the response goes out
Leaves(w, response) ==
    /\ loop' = NoWorker
    /\ resp' = [resp EXCEPT ![w] = response]
    /\ pc' = [pc EXCEPT ![w] = "done"]

-----------------------------------------------------------------------------
(* POST /run-email: graph.stream runs triage, agent, sensitive; the handler *)
(* then files the proposal in PENDING or answers DONE.                      *)

\* a variant of the graph with an edge from triage to sensitive
NextNode_SkipsAgent(n) ==
    CASE n = "START" -> "triage"
      [] n = "triage" -> "sensitive"
      [] n = "agent" -> "sensitive"
      [] n = "sensitive" -> "collect"

\* build_graph: the edges START -> triage -> agent -> sensitive -> END; at
\* END the stream is over and run_email collects what it yielded
NextNode(n) ==
    CASE n = "START" -> "triage"
      [] n = "triage" -> "agent"
      [] n = "agent" -> "sensitive"
      [] n = "sensitive" -> "collect"

\* run_email lines 136-142: the handler starts on the request body and the
\* graph run begins
RunEmailStart(w, env) ==
    /\ Enters(w, "run_email")
    /\ \E e \in EmailIds, s \in Subjects, f \in env.senders :
          item' = [item EXCEPT ![w] =
                      [email_id |-> e, email_subject |-> s, email_sender |-> f]]
    /\ Holds(w)
    /\ pc' = [pc EXCEPT ![w] = NextNode("START")]
    /\ UNCHANGED <<vip_vars, loop_vars, hitl_secret, PENDING, nreq, kind, areq, state, intr, iter,
                   resp, sent, logged, registered, removals,
                   send_count, send_failed>>

\* run_email lines 204-206: an exception that leaves graph.stream is
\* answered with 500
RunEmailError == Response(500, "Exception")

\* node "triage"; the triage row is written when classify_email returned.
\* An exception leaving the node would leave graph.stream too.
Triage(w, env) ==
    /\ At(w, "run_email", "triage")
    /\ \E answer \in env.classifier, vipDbOk \in env.db, logDbOk \in env.db :
          LET after == node_triage(state[w], item[w], answer, vipDbOk)
          IN  /\ state' = [state EXCEPT ![w] =
                              [after EXCEPT !.classifier = answer.kind,
                                            !.markers = IF env.detail
                                                        THEN answer.markers ELSE {},
                                            !.ran = Append(@, "triage")]]
              /\ logged' = [logged EXCEPT ![w] =
                    IF classify_email(answer) = Raised
                    THEN @
                    ELSE log_email_action(@, item[w], classify_email(answer),
                                          "triage", logDbOk)]
              /\ IF after.triage = Raised
                 THEN Leaves(w, RunEmailError)
                 ELSE /\ pc' = [pc EXCEPT ![w] = NextNode("triage")]
                      /\ UNCHANGED <<loop, resp>>
    /\ UNCHANGED <<vip_vars, loop_vars, hitl_secret, PENDING, nreq, kind, item, areq, intr,
                   iter, sent, registered, removals,
                   send_count, send_failed>>

\* node "agent"
Agent(w, env) ==
    /\ At(w, "run_email", "agent")
    /\ \E profileOk \in env.db, vipListOk \in env.db, answer \in env.drafter,
          logDbOk \in env.db :
          LET after == node_agent(state[w], profileOk, answer)
          IN  /\ state' = [state EXCEPT ![w] =
                              [after EXCEPT !.drafter = IF DrafterCalled(state[w], profileOk)
                                                        THEN answer ELSE "",
                                            !.vip_context =
                                                /\ DrafterCalled(state[w], profileOk)
                                                /\ VipContext(item[w].email_sender,
                                                              vip_emails_of(vipListOk)),
                                            !.ran = Append(@, "agent")]]
              /\ logged' = [logged EXCEPT ![w] =
                    IF AgentLogs(state[w], profileOk, answer)
                    THEN log_email_action(@, item[w], state[w].triage,
                                          "draft_generated", logDbOk)
                    ELSE @]
              /\ IF after.draft = <<Raised>>
                 THEN Leaves(w, RunEmailError)
                 ELSE /\ pc' = [pc EXCEPT ![w] = NextNode("agent")]
                      /\ UNCHANGED <<loop, resp>>
    /\ UNCHANGED <<vip_vars, loop_vars, hitl_secret, PENDING, nreq, kind, item, areq, intr,
                   iter, sent, registered, removals,
                   send_count, send_failed>>

\* node "sensitive", when the gate fires: the payload is built, the
\* awaiting_approval row written, the payload and a fresh thread id stashed
\* in the state, and interrupt() called
SensitiveInterrupt(w, env) ==
    /\ At(w, "run_email", "sensitive")
    /\ GateFires(state[w])
    /\ \E sfx \in Suffixes, surface \in Surfaces, logDbOk \in env.db :
          /\ state' = [state EXCEPT ![w] =
                          [@ EXCEPT !.hitl_payload = HitlPayload(state[w], item[w]),
                                    !.hitl_thread_id = <<item[w].email_id, sfx>>,
                                    !.surface = surface,
                                    !.ran = Append(@, "sensitive")]]
          /\ logged' = [logged EXCEPT ![w] =
                log_email_action(@, item[w], state[w].triage,
                                 "awaiting_approval", logDbOk)]
    /\ pc' = [pc EXCEPT ![w] = NextNode("sensitive")]
    /\ UNCHANGED <<vip_vars, loop_vars, hitl_secret, PENDING, loop, nreq, kind, item, areq, intr,
                   iter, resp, sent, registered, removals,
                   send_count, send_failed>>

\* node "sensitive", when the gate does not fire: the state passes through
SensitivePass(w) ==
    /\ At(w, "run_email", "sensitive")
    /\ ~GateFires(state[w])
    /\ state' = [state EXCEPT ![w].ran = Append(@, "sensitive")]
    /\ pc' = [pc EXCEPT ![w] = NextNode("sensitive")]
    /\ UNCHANGED <<vip_vars, loop_vars, hitl_secret, PENDING, loop, nreq, kind, item, areq,
                   intr, iter, resp, sent, logged, registered, removals,
                   send_count, send_failed>>

\* the entry run_email stores, with the metadata of `last`
PendingEntry(payload, last) ==
    [value |-> payload, triage |-> last.triage, priority |-> last.priority,
     is_vip |-> last.is_vip]

\* a variant in which the handler does not return after it has stored the
\* entry
Registers_GoesOn(w, t, entry) ==
    /\ PENDING' = SetItem(PENDING, t, entry)
    /\ registered' = [registered EXCEPT ![t] = @ + 1]
    /\ UNCHANGED <<loop, resp, pc>>

\* a variant in which the handler, having stored the entry, gives up the
\* loop and waits for the decision
Registers_AwaitsDecision(w, t, entry) ==
    /\ PENDING' = SetItem(PENDING, t, entry)
    /\ registered' = [registered EXCEPT ![t] = @ + 1]
    /\ loop' = NoWorker
    /\ pc' = [pc EXCEPT ![w] = "awaiting"]
    /\ UNCHANGED resp

\* PENDING[thread_id] = entry, and the INTERRUPTED response
Registers(w, t, entry) ==
    /\ PENDING' = SetItem(PENDING, t, entry)
    /\ registered' = [registered EXCEPT ![t] = @ + 1]
    /\ Leaves(w, Interrupted(t, entry.value))

\* run_email lines 144-155: a streamed step carries "__interrupt__"; the
\* thread id is the one the runtime put in the interrupt, the metadata are
\* read from that step (`last = step` precedes the test)
CollectInterruptEvent(w, env) ==
    /\ At(w, "run_email", "collect")
    /\ state[w].surface = "event"
    /\ \E t \in Tokens, shape \in env.steps :
          Registers(w, t, PendingEntry(state[w].hitl_payload,
                                       InterruptStep(state[w], shape)))
    /\ UNCHANGED <<vip_vars, loop_vars, hitl_secret, nreq, kind, item, areq, state, intr, iter,
                   sent, logged, removals, send_count, send_failed>>

\* run_email lines 158-168: the last state carries the stashed payload
CollectStashed(w) ==
    /\ At(w, "run_email", "collect")
    /\ state[w].surface = "stash"
    /\ Registers(w, state[w].hitl_thread_id,
                 PendingEntry(state[w].hitl_payload, state[w]))
    /\ UNCHANGED <<vip_vars, loop_vars, hitl_secret, nreq, kind, item, areq, state, intr, iter,
                   sent, logged, removals, send_count, send_failed>>

\* run_email lines 171-199: the last state proposes send_email with a draft
CollectFinalState(w) ==
    /\ At(w, "run_email", "collect")
    /\ state[w].surface \notin {"event", "stash"}
    /\ GateFires(state[w])
    /\ \E sfx \in Suffixes :
          Registers(w, <<item[w].email_id, sfx>>,
                    PendingEntry(FallbackPayload(state[w], item[w]), state[w]))
    /\ UNCHANGED <<vip_vars, loop_vars, hitl_secret, nreq, kind, item, areq, state, intr, iter,
                   sent, logged, removals, send_count, send_failed>>

\* run_email lines 201-202
RunEmailDone(w) ==
    /\ At(w, "run_email", "collect")
    /\ state[w].surface \notin {"event", "stash"}
    /\ ~GateFires(state[w])
    /\ Leaves(w, [Response(200, "DONE") EXCEPT !.state = state[w]])
    /\ UNCHANGED <<vip_vars, loop_vars, hitl_secret, PENDING, nreq, kind, item, areq, state, intr,
                   iter, sent, logged, registered, removals,
                   send_count, send_failed>>

-----------------------------------------------------------------------------
(* POST /approve *)

\* a variant without the secret check
Authorized_Anyone(h) == TRUE

\* approve line 256: secret != os.getenv("HITL_SECRET") is false
Authorized(h) == h = hitl_secret

\* a variant in which the membership test comes before the secret check
Forbidden_AfterLookup(t) ==
    IF Contains(PENDING, t) THEN Response(403, "Forbidden")
    ELSE Response(404, "No such interrupt")

\* approve line 258: HTTPException(403, "Forbidden"), for any thread id
Forbidden(t) == Response(403, "Forbidden")

\* approve lines 256-258: the header differs from the configured secret
ApproveForbidden(w) ==
    /\ Enters(w, "approve")
    /\ \E h \in HeaderValues :
          /\ ~Authorized(h)
          /\ areq' = [areq EXCEPT ![w].secret = h]
    /\ Leaves(w, Forbidden(areq[w].thread_id))
    /\ UNCHANGED <<vip_vars, loop_vars, hitl_secret, PENDING, nreq, kind, item, state, intr, iter,
                   sent, logged, registered, removals,
                   send_count, send_failed>>

\* approve lines 256-262: the header equals the configured secret
ApproveAuthorized(w) ==
    /\ Enters(w, "approve")
    /\ \E h \in HeaderValues :
          /\ Authorized(h)
          /\ areq' = [areq EXCEPT ![w].secret = h]
    /\ Holds(w)
    /\ pc' = [pc EXCEPT ![w] = "lookup"]
    /\ UNCHANGED <<vip_vars, loop_vars, hitl_secret, PENDING, nreq, kind, item, state, intr, iter,
                   resp, sent, logged, registered, removals,
                   send_count, send_failed>>

\* a variant without the membership test
IsPending_Always(t) == TRUE

\* approve line 263: thread_id in PENDING
IsPending(t) == Contains(PENDING, t)

\* approve lines 263-264: thread_id not in PENDING
ApproveNotFound(w) ==
    /\ At(w, "approve", "lookup")
    /\ ~IsPending(areq[w].thread_id)
    /\ Leaves(w, Response(404, "No such interrupt"))
    /\ UNCHANGED <<vip_vars, loop_vars, hitl_secret, PENDING, nreq, kind, item, areq, state, intr,
                   iter, sent, logged, registered, removals,
                   send_count, send_failed>>

\* approve line 263: thread_id in PENDING
ApproveFound(w) ==
    /\ At(w, "approve", "lookup")
    /\ IsPending(areq[w].thread_id)
    /\ areq' = [areq EXCEPT ![w].live_at_lookup = TRUE]
    /\ pc' = [pc EXCEPT ![w] = "pop"]
    /\ UNCHANGED <<vip_vars, loop_vars, hitl_secret, PENDING, loop, nreq, kind, item, state, intr,
                   iter, resp, sent, logged, registered, removals,
                   send_count, send_failed>>

\* a variant that ignores the decision
Declined_Never(approved) == FALSE

\* approve line 272: not approved
Declined(approved) == ~approved

\* approve lines 266-274 and 293-295: intr = PENDING.pop(thread_id) raises
\* KeyError when the key is gone (answered with 500); else the entry is
\* taken out, and a denial is answered at once
ApprovePop(w) ==
    /\ At(w, "approve", "pop")
    /\ IF ~Contains(PENDING, areq[w].thread_id)
       THEN /\ Leaves(w, Response(500, "KeyError"))
            /\ UNCHANGED <<PENDING, intr, removals, areq>>
       ELSE /\ intr' = [intr EXCEPT ![w] = Lookup(PENDING, areq[w].thread_id)]
            /\ PENDING' = PopItem(PENDING, areq[w].thread_id)
            /\ removals' = [removals EXCEPT ![areq[w].thread_id] = @ + 1]
            /\ \E a \in BOOLEAN :
                  /\ areq' = [areq EXCEPT ![w].approved = a]
                  /\ IF Declined(a)
                     THEN Leaves(w, Response(200, "DENIED"))
                     ELSE /\ pc' = [pc EXCEPT ![w] = "send"]
                          /\ UNCHANGED <<loop, resp>>
    /\ UNCHANGED <<vip_vars, loop_vars, hitl_secret, nreq, kind, item, state, iter, sent, logged,
                   registered, send_count, send_failed>>

\* a variant that sends the edits in place of the proposal when there are any
MergedMessage_WholeObject(edits, proposal) ==
    IF edits.keys # {}
    THEN [to |-> edits.to, subject |-> edits.subject, body |-> edits.body]
    ELSE [to |-> proposal.to, subject |-> proposal.subject, body |-> proposal.body]

\* approve lines 278-280: the edits laid over the stored proposal
MergedMessage(edits, proposal) ==
    [to |-> EditsGet(edits, "to", proposal.to),
     subject |-> EditsGet(edits, "subject", proposal.subject),
     body |-> EditsGet(edits, "body", proposal.body)]

\* approve lines 283-288: the result of gm.send_email reported
SendResponse(msg_id) ==
    IF Truthy(msg_id)
    THEN [Response(200, "SENT") EXCEPT !.message_id = msg_id]
    ELSE [Response(200, "ERROR") EXCEPT !.message = "Failed to send email"]

\* approve lines 276-288: the message is merged, gm.send_email called once
ApproveSend(w) ==
    /\ At(w, "approve", "send")
    /\ \E ks \in SUBSET Fields, msg_id \in SendResults :
          LET m == MergedMessage(EditsOf(ks), intr[w].value.proposal)
          IN /\ areq' = [areq EXCEPT ![w].edits = EditsOf(ks)]
             /\ sent' = [sent EXCEPT ![w] =
                    Append(@, [to |-> m.to, subject |-> m.subject,
                               body |-> m.body, result |-> msg_id])]
             /\ send_failed' = IF msg_id = None
                               THEN send_failed \cup {areq[w].thread_id}
                               ELSE send_failed
             /\ Leaves(w, SendResponse(msg_id))
    /\ send_count' = [send_count EXCEPT ![areq[w].thread_id] = @ + 1]
    /\ UNCHANGED <<vip_vars, loop_vars, hitl_secret, PENDING, nreq, kind, item, state, intr, iter,
                   logged, registered, removals>>

-----------------------------------------------------------------------------
(* GET /pending: a list comprehension over PENDING.items(), run on a       *)
(* thread-pool thread.  Each step of the iterator is one step here; the    *)
(* event loop may run between two of them.                                 *)

\* the item the comprehension builds for one (k, v), lines 222-229
ListedItem(k, v) ==
    [thread_id |-> k, payload |-> v.value, triage |-> v.triage,
     priority |-> v.priority, is_vip |-> v.is_vip]

\* a variant of the iteration that passes over the slot after pos
SlotsAfter_SkipsOne(d, pos) == {i \in LiveSlots(d) : i > pos + 1}

\* the live slots after position pos
SlotsAfter(d, pos) == {i \in LiveSlots(d) : i > pos}

\* the request arrives and its handler calls iter(PENDING.items()): the
\* iterator notes the dict's size
ArrivePending(w, env) ==
    /\ Arrives(w, "pending", "iterating", env)
    /\ iter' = [iter EXCEPT ![w] =
                   [pos |-> 0, used |-> Used(PENDING), out |-> <<>>,
                    keys_at_start |-> Keys(PENDING),
                    removals_at_start |-> removals,
                    registered_at_start |-> registered]]
    /\ UNCHANGED <<vip_vars, loop_vars, hitl_secret, PENDING, loop, item, areq, state, intr, resp,
                   sent, logged, registered, removals,
                   send_count, send_failed>>

\* next(iterator): RuntimeError when the dict's size changed, or when an
\* entry turns up after as many were yielded as the dict held (FastAPI
\* answers 500); else the next entry, or the end and the 200 response
PendingNext(w) ==
    /\ At(w, "pending", "iterating")
    /\ LET it == iter[w]
           rest == SlotsAfter(PENDING, it.pos)
           i == CHOOSE j \in rest : \A m \in rest : j <= m
       IN IF it.used # Used(PENDING) \/ (rest # {} /\ Len(it.out) = it.used)
          THEN /\ resp' = [resp EXCEPT ![w] = Response(500, "RuntimeError")]
               /\ pc' = [pc EXCEPT ![w] = "done"]
               /\ UNCHANGED iter
          ELSE IF rest # {}
          THEN /\ iter' = [iter EXCEPT ![w] =
                              [it EXCEPT !.pos = i,
                                         !.out = Append(@, ListedItem(PENDING[i].key,
                                                                      PENDING[i].entry))]]
               /\ UNCHANGED <<pc, resp>>
          ELSE /\ resp' = [resp EXCEPT ![w] = [Response(200, "OK") EXCEPT !.items = it.out]]
               /\ pc' = [pc EXCEPT ![w] = "done"]
               /\ UNCHANGED iter
    /\ UNCHANGED <<vip_vars, loop_vars, hitl_secret, PENDING, loop, nreq, kind, item, areq, state,
                   intr, sent, logged, registered, removals,
                   send_count, send_failed>>

-----------------------------------------------------------------------------

Step(w, env) ==
    \/ ArriveRunEmail(w, env)
    \/ ArriveApprove(w, env)
    \/ ArrivePending(w, env)
    \/ RunEmailStart(w, env)
    \/ Triage(w, env)
    \/ Agent(w, env)
    \/ SensitiveInterrupt(w, env)
    \/ SensitivePass(w)
    \/ CollectInterruptEvent(w, env)
    \/ CollectStashed(w)
    \/ CollectFinalState(w)
    \/ RunEmailDone(w)
    \/ ApproveForbidden(w)
    \/ ApproveAuthorized(w)
    \/ ApproveNotFound(w)
    \/ ApproveFound(w)
    \/ ApprovePop(w)
    \/ ApproveSend(w)
    \/ PendingNext(w)

\* the service among collaborators that work: the model answers with JSON
\* (a reply is needed, or none is), the drafter returns a text, the
\* database answers
Working ==
    [requests |-> MaxRequests,
     classifier |-> {a \in ClassifierAnswers :
                        a.kind = "json" /\ a.email_type \in {"needs_reply", "fyi"}},
     drafter |-> {"text"},
     db |-> {TRUE},
     senders |-> Senders,
     detail |-> FALSE,
     steps |-> {"state"}]

\* a few requests among collaborators that may do anything they can
Failing ==
    [requests |-> PipelineRequests,
     classifier |-> ClassifierAnswers,
     drafter |-> DrafterAnswers,
     db |-> BOOLEAN,
     senders |-> Senders,
     detail |-> FALSE,
     steps |-> {"state"}]

NextIn(env) ==
    \E w \in Workers : Close(w) \/ Step(w, env)

Next == NextIn(Working)

Spec == Init /\ [][Next]_vars

NextPipeline == NextIn(Failing)

SpecPipeline == Init /\ [][NextPipeline]_vars

\* the classifier under study: every answer of the model call, the rest of
\* the collaborators working; the run notes the keywords of the message
Classifying ==
    [requests |-> ClassifyRequests,
     classifier |-> ClassifierAnswers,
     drafter |-> {"text"},
     db |-> {TRUE},
     senders |-> Senders,
     detail |-> TRUE,
     steps |-> {"state"}]

NextClassify == NextIn(Classifying)

SpecClassify == Init /\ [][NextClassify]_vars

\* the registration under study: collaborators that work, the VIP contact
\* writing with and without a display name, and an interrupt step of either
\* shape (the other services take the step to carry the state's keys)
Registering ==
    [requests |-> RegisterRequests,
     classifier |-> {a \in ClassifierAnswers :
                        a.kind = "json" /\ a.email_type \in {"needs_reply", "fyi"}},
     drafter |-> {"text"},
     db |-> {TRUE},
     senders |-> Senders \cup {<<AliceAddr>>},
     detail |-> FALSE,
     steps |-> StepShapes]

NextRegister == NextIn(Registering)

SpecRegister == Init /\ [][NextRegister]_vars

\* the server started without HITL_SECRET in its environment:
\* os.getenv("HITL_SECRET") is None
InitUnset == InitWith(None)

SpecUnset == InitUnset /\ [][NextRegister]_vars

\* Progress of run_email.  The handler is an async def without an await and
\* the nodes are plain calls, so once the loop has taken it up it runs to
\* its return; answered requests leave.  Nothing is asked of approve or
\* pending, nor of the arrival of requests.  The From header may be any
\* string here, also one without an address.
Suspending ==
    [requests |-> SuspendRequests,
     classifier |-> Working.classifier,
     drafter |-> Working.drafter,
     db |-> Working.db,
     senders |-> Senders \cup BareSenders,
     detail |-> FALSE,
     steps |-> {"state"}]

RunEmailStep(w, env) ==
    \/ Triage(w, env)
    \/ Agent(w, env)
    \/ SensitiveInterrupt(w, env)
    \/ SensitivePass(w)
    \/ CollectInterruptEvent(w, env)
    \/ CollectStashed(w)
    \/ CollectFinalState(w)
    \/ RunEmailDone(w)

NextSuspend == NextIn(Suspending)

SpecSuspend ==
    /\ Init
    /\ [][NextSuspend]_vars
    /\ \A w \in Workers :
          WF_vars(Close(w)) /\ WF_vars(RunEmailStep(w, Suspending))

-----------------------------------------------------------------------------
(* memory_store's VIP functions, called as seed_data.py and the tests call *)
(* them: straight on the database, for any user.  `ok` records whether the *)
(* statement of the call executed, `returned` the boolean and `listed` the *)
(* emails of the list the call returned.                                   *)

VipCall(op, user, email, dbOk, returned, listed) ==
    [op |-> op, user_id |-> user, email |-> email, ok |-> dbOk,
     returned |-> returned, listed |-> listed]

\* add_vip_contact: the upsert, True; any exception is logged, False
AddVipContact(user, email, priority, dbOk) ==
    /\ dbOk => vip_added[user, email] < MaxVipAdds
    /\ vip_contacts' = IF dbOk THEN Upsert(vip_contacts, user, email, priority)
                              ELSE vip_contacts
    /\ vip_added' = IF dbOk THEN [vip_added EXCEPT ![user, email] = @ + 1]
                            ELSE vip_added
    /\ vip_call' = VipCall("add", user, email, dbOk, dbOk, <<>>)
    /\ UNCHANGED <<loop_vars, hitl_secret, PENDING, loop, nreq, kind, pc, item,
                   areq, state, intr, iter, resp, sent, logged, registered,
                   removals, send_count, send_failed>>

\* is_vip_contact: whether the query found a row; any exception is logged, False
IsVipContact(user, email, dbOk) ==
    /\ vip_call' = VipCall("is_vip", user, email, dbOk,
                           dbOk /\ VipRows(vip_contacts, user, email) # {}, <<>>)
    /\ UNCHANGED <<vip_contacts, vip_added>>
    /\ UNCHANGED <<loop_vars, hitl_secret, PENDING, loop, nreq, kind, pc, item,
                   areq, state, intr, iter, resp, sent, logged, registered,
                   removals, send_count, send_failed>>

\* get_vip_contacts: the user's rows; any exception is logged, the empty list
GetVipContacts(user, dbOk) ==
    /\ vip_call' = VipCall("get", user, <<>>, dbOk, FALSE,
                           IF dbOk THEN SelectContacts(vip_contacts, user)
                                   ELSE <<>>)
    /\ UNCHANGED <<vip_contacts, vip_added>>
    /\ UNCHANGED <<loop_vars, hitl_secret, PENDING, loop, nreq, kind, pc, item,
                   areq, state, intr, iter, resp, sent, logged, registered,
                   removals, send_count, send_failed>>

NextVip ==
    \E user \in Users, dbOk \in BOOLEAN :
        \/ \E email \in VipEmails, priority \in Priorities :
               AddVipContact(user, email, priority, dbOk)
        \/ \E email \in VipEmails : IsVipContact(user, email, dbOk)
        \/ GetVipContacts(user, dbOk)

SpecVip == Init /\ [][NextVip]_vars

-----------------------------------------------------------------------------
(* ambient_loop: the polling process.  One iteration of `while True` is a  *)
(* Poll followed by one ProcessNext for each id of new_emails.             *)

\* a variant that marks an id as seen only when its message was submitted
SeenAfter_OnSuccess(s, mid, outcome) ==
    IF outcome = "submitted" THEN s \cup {mid} ELSE s

\* line 155: seen.add(mid), before process_message(mid) is called
SeenAfter(s, mid, outcome) == s \cup {mid}

\* the for loop is over: every id of new_emails was taken, or an exception
\* ended it
BatchOver == taken = Len(new_emails)

\* lines 147-149: the listing and the ids of it that are not in seen
Poll(listing) ==
    /\ running
    /\ BatchOver
    /\ polls < MaxPolls
    /\ polls' = polls + 1
    /\ ids' = listing
    /\ new_emails' = SelectSeq(listing, LAMBDA mid : mid \notin seen)
    /\ taken' = 0
    /\ UNCHANGED <<seen, processed, running>>
    /\ UNCHANGED <<vip_vars, hitl_secret, PENDING, loop, nreq, kind, pc, item,
                   areq, state, intr, iter, resp, sent, logged, registered,
                   removals, send_count, send_failed>>

\* lines 154-157: one turn of `for mid in new_emails`
ProcessNext(outcome) ==
    /\ running
    /\ ~BatchOver
    /\ LET mid == new_emails[taken + 1]
       IN /\ seen' = SeenAfter(seen, mid, outcome)
          /\ processed' = [processed EXCEPT ![mid] = Append(@, outcome)]
    /\ taken' = IF outcome \in {"loop_error", "crash"} THEN Len(new_emails)
                ELSE taken + 1
    /\ running' = (outcome # "crash")
    /\ UNCHANGED <<ids, new_emails, polls>>
    /\ UNCHANGED <<vip_vars, hitl_secret, PENDING, loop, nreq, kind, pc, item,
                   areq, state, intr, iter, resp, sent, logged, registered,
                   removals, send_count, send_failed>>

NextLoop ==
    \/ \E listing \in Listings : Poll(listing)
    \/ \E outcome \in ProcessOutcomes : ProcessNext(outcome)

SpecLoop == Init /\ [][NextLoop]_vars

-----------------------------------------------------------------------------
(* Properties.  An answered request is one in position "done": its handler *)
(* has returned or raised, and its request, locals and response are still  *)
(* to be seen.                                                             *)

ApproveAnswered(w) == kind[w] = "approve" /\ pc[w] = "done"

\* the header the handler read equals the configured secret
WithSecret(w) == areq[w].secret = hitl_secret

\* the handler's pop returned an entry
Took(w) == intr[w] # NoEntry

\* the thread ids in a listing's response
ListedTokens(w) == {resp[w].items[i].thread_id : i \in 1..Len(resp[w].items)}

\* C1: once an approve with the correct secret has removed token t, every
\* later approve naming t (one that arrives when t has been popped before)
\* answers 404 and sends nothing.
C1_RemovedTokenStays404 ==
    \A w \in Workers :
        (ApproveAnswered(w) /\ WithSecret(w) /\ areq[w].removals_at_arrival > 0)
        => (resp[w].code = 404 /\ sent[w] = <<>>)

\* C2: gm.send_email is called only in an approve handler that read the
\* correct secret, found the thread id in PENDING, popped its entry and was
\* told approved = true, and there once; a run_email handler never calls
\* it; and no thread id has more sends than registrations.
C2_SendOnlyOnApproval ==
    /\ \A w \in Workers :
          sent[w] # <<>> =>
             /\ kind[w] = "approve"
             /\ WithSecret(w)
             /\ areq[w].live_at_lookup
             /\ Took(w)
             /\ areq[w].approved
             /\ Len(sent[w]) = 1
    /\ \A w \in Workers : kind[w] \in {"run_email", "pending"} => sent[w] = <<>>
    /\ \A t \in Tokens : send_count[t] <= registered[t]

\* an approved proposal has been sent
C2_Witness ==
    \E w \in Workers :
        /\ ApproveAnswered(w)
        /\ resp[w].status = "SENT"
        /\ Len(sent[w]) = 1
        /\ send_count[areq[w].thread_id] = registered[areq[w].thread_id]

\* C3: of the approve calls in flight together with the correct secret for
\* a thread id that was pending when they arrived (and was not registered
\* anew meanwhile), exactly one pops the entry and answers SENT or ERROR
\* (DENIED when told so); any other answers 404; none answers 500; and
\* gm.send_email is called at most once.
C3_OneWinner ==
    \A w \in Workers :
        LET t == areq[w].thread_id
        IN (/\ ApproveAnswered(w)
            /\ WithSecret(w)
            /\ areq[w].pending_at_arrival
            /\ registered[t] = areq[w].registered_at_arrival)
           => /\ resp[w].code # 500
              /\ removals[t] = areq[w].removals_at_arrival + 1
              /\ send_count[t] <= areq[w].send_count_at_arrival + 1
              /\ \/ /\ Took(w)
                    /\ resp[w].status \in {"SENT", "ERROR", "DENIED"}
                    /\ areq[w].approved => /\ resp[w].status \in {"SENT", "ERROR"}
                                           /\ Len(sent[w]) = 1
                 \/ /\ ~Took(w)
                    /\ resp[w].code = 404
                    /\ sent[w] = <<>>

\* the call that lost: the thread id was pending when it arrived, another
\* call popped and sent it meanwhile, and this one answers 404
C3_Witness ==
    \E w \in Workers :
        LET t == areq[w].thread_id
        IN /\ ApproveAnswered(w)
           /\ WithSecret(w)
           /\ areq[w].pending_at_arrival
           /\ registered[t] = areq[w].registered_at_arrival
           /\ resp[w].code = 404
           /\ send_count[t] = areq[w].send_count_at_arrival + 1

\* C4: the step in which an approve handler reads a header that differs
\* from the configured secret answers 403, and leaves PENDING and the sends
\* as they were.
C4_WrongSecretIs403 ==
    [][\A w \in Workers :
          (/\ kind[w] = "approve"
           /\ pc[w] = "arrived"
           /\ pc'[w] # "arrived"
           /\ areq'[w].secret # hitl_secret)
          => /\ pc'[w] = "done"
             /\ resp'[w].code = 403
             /\ PENDING' = PENDING
             /\ sent' = sent
             /\ send_count' = send_count]_vars

\* a call with a wrong secret was answered 403 and the proposal it named is
\* still pending
C4_Witness ==
    \E w \in Workers :
        /\ ApproveAnswered(w)
        /\ ~WithSecret(w)
        /\ resp[w].code = 403
        /\ Contains(PENDING, areq[w].thread_id)

\* C5: an approve with the correct secret that popped a live entry and was
\* told approved = false answers DENIED, calls gm.send_email never, and the
\* thread id is no longer in PENDING.
C5_DenialRemoves ==
    \A w \in Workers :
        (ApproveAnswered(w) /\ WithSecret(w) /\ Took(w) /\ ~areq[w].approved)
        => /\ resp[w].status = "DENIED"
           /\ sent[w] = <<>>
           /\ ~Contains(PENDING, areq[w].thread_id)

\* a denial has been answered
C5_Witness ==
    \E w \in Workers :
        /\ ApproveAnswered(w)
        /\ WithSecret(w)
        /\ Took(w)
        /\ resp[w].status = "DENIED"
        /\ registered[areq[w].thread_id] > 0

\* C6: every listing answered while thread id t has been in PENDING since
\* before the listing began, and no approve with the correct secret has
\* named t, contains t.
C6_ListedUntilApproved ==
    \A w \in Workers :
        (kind[w] = "pending" /\ pc[w] = "done")
        => \A t \in iter[w].keys_at_start :
              (/\ removals[t] = iter[w].removals_at_start[t]
               /\ \A v \in Workers :
                     kind[v] = "approve" => areq[v].thread_id # t)
              => t \in ListedTokens(w)

\* the part of C6 that is about PENDING alone: a thread id leaves PENDING
\* only in the pop of an approve that read the correct secret and named it
OnlyApprovePops ==
    [][\A t \in Tokens :
          (Contains(PENDING, t) /\ ~Contains(PENDING', t))
          => \E w \in Workers :
                /\ kind[w] = "approve"
                /\ pc[w] = "pop"
                /\ WithSecret(w)
                /\ areq[w].thread_id = t]_vars

\* C7: whenever run_email registers a proposal, its thread id is not a key
\* of PENDING at that moment.
C7_RegistersFreshKey ==
    [][\A t \in Tokens :
          registered'[t] # registered[t] => ~Contains(PENDING, t)]_vars

\* C8: a thread id that approve has popped is never again the key of a new
\* registration, and a thread id names at most one live entry.
C8_NoTokenReuse ==
    [][\A t \in Tokens :
          /\ registered'[t] # registered[t] => removals[t] = 0
          /\ Cardinality({i \in LiveSlots(PENDING') : PENDING'[i].key = t}) <= 1]_vars

\* C9: the message handed to gm.send_email has, field by field, the value
\* in edits when edits has that field and the popped proposal's value when
\* it has not.
C9_FieldLevelMerge ==
    \A w \in Workers :
        sent[w] # <<>> =>
            \A f \in Fields :
                sent[w][1][f] = IF f \in areq[w].edits.keys
                                THEN areq[w].edits[f]
                                ELSE intr[w].value.proposal[f]

\* a message was sent with some fields edited and the others not
C9_Witness ==
    \E w \in Workers :
        /\ ApproveAnswered(w)
        /\ sent[w] # <<>>
        /\ areq[w].edits.keys = {"body"}
        /\ sent[w][1].body = EditText
        /\ sent[w][1].to = intr[w].value.proposal.to
        /\ sent[w][1].subject = intr[w].value.proposal.subject
        /\ sent[w][1].body # intr[w].value.proposal.body

\* C10: an approved call whose gm.send_email failed answers ERROR with a
\* message, after one call to gm.send_email, with the thread id out of
\* PENDING; and an approve that arrives for a thread id whose send has
\* failed answers 404.
C10_FailedSendRetires ==
    \A w \in Workers :
        (ApproveAnswered(w) /\ WithSecret(w))
        => /\ (Took(w) /\ sent[w] # <<>> /\ sent[w][1].result = None)
              => /\ resp[w].status = "ERROR"
                 /\ resp[w].message # ""
                 /\ Len(sent[w]) = 1
                 /\ ~Contains(PENDING, areq[w].thread_id)
           /\ areq[w].failed_at_arrival
              => (resp[w].code = 404 /\ sent[w] = <<>>)

\* the part of C10 that is about the failing call alone
FailedSendAnswersError ==
    \A w \in Workers :
        (ApproveAnswered(w) /\ sent[w] # <<>> /\ sent[w][1].result = None)
        => /\ resp[w].status = "ERROR"
           /\ resp[w].message # ""
           /\ Len(sent[w]) = 1
           /\ ~Contains(PENDING, areq[w].thread_id)

\* C11: an approve handler that read the correct secret and names a thread
\* id under which nothing was ever registered goes from the secret check to
\* the lookup and from there to the 404 response, and none of its steps
\* changes PENDING or calls gm.send_email.
C11_UnknownTokenIs404 ==
    [][\A w \in Workers :
          (/\ kind[w] = "approve"
           /\ pc[w] \in {"arrived", "lookup"}
           /\ pc'[w] # pc[w]
           /\ areq'[w].secret = hitl_secret
           /\ registered[areq[w].thread_id] = 0)
          => /\ pc'[w] = (IF pc[w] = "arrived" THEN "lookup" ELSE "done")
             /\ pc'[w] = "done" => resp'[w].code = 404
             /\ PENDING' = PENDING
             /\ sent' = sent
             /\ send_count' = send_count]_vars

\* an approve with the correct secret for a thread id never registered was
\* answered 404, while another proposal is pending
C11_Witness ==
    \E w \in Workers :
        /\ ApproveAnswered(w)
        /\ WithSecret(w)
        /\ registered[areq[w].thread_id] = 0
        /\ resp[w].code = 404
        /\ Keys(PENDING) # {}

RunEmailAnswered(w) == kind[w] = "run_email" /\ pc[w] = "done"

\* C12: the step in which a run_email handler answers registers a proposal
\* and answers INTERRUPTED with its thread id and payload when, in the state
\* the agent node left, proposed_action is send_email and draft is not
\* empty; else it answers DONE with that state and leaves PENDING as it
\* was; and no earlier step of the handler changes PENDING.
C12_InterruptedIffGate ==
    [][\A w \in Workers :
          (kind[w] = "run_email" /\ pc'[w] # pc[w])
          => IF pc'[w] # "done"
             THEN PENDING' = PENDING /\ registered' = registered
             ELSE IF state[w].proposed_action = "send_email" /\ state[w].draft # <<>>
             THEN /\ resp'[w].code = 200
                  /\ resp'[w].status = "INTERRUPTED"
                  /\ Contains(PENDING', resp'[w].thread_id)
                  /\ Lookup(PENDING', resp'[w].thread_id).value = resp'[w].payload
                  /\ registered' = [registered EXCEPT ![resp'[w].thread_id] = @ + 1]
                  /\ Keys(PENDING') = Keys(PENDING) \cup {resp'[w].thread_id}
             ELSE /\ resp'[w].code = 200
                  /\ resp'[w].status = "DONE"
                  /\ resp'[w].state = state[w]
                  /\ PENDING' = PENDING
                  /\ registered' = registered]_vars

\* a message triaged schedule was answered DONE with proposed_action
\* create_event, beside a proposal that an earlier call registered
C12_Witness ==
    \E w \in Workers :
        /\ RunEmailAnswered(w)
        /\ resp[w].status = "DONE"
        /\ resp[w].state.triage = "schedule"
        /\ resp[w].state.proposed_action = "create_event"
        /\ Keys(PENDING) # {}

\* C13: a run_email call whose message triage labelled needs_reply has a
\* draft that is not empty and is answered INTERRUPTED with a thread id that
\* is a key of PENDING; it is never answered DONE.
C13_NeedsReplyInterrupts ==
    \A w \in Workers :
        (RunEmailAnswered(w) /\ state[w].triage = "needs_reply")
        => /\ state[w].draft # <<>>
           /\ resp[w].status = "INTERRUPTED"
           /\ Contains(PENDING, resp[w].thread_id)

\* the classifier's call raised an error in this run
ClassifierRaised(w) == state[w].classifier \in {"error", "fatal"}

\* C14: in every run in which the call to the model raised an error during
\* triage, of whatever kind and for whatever message, the state has triage
\* fyi and proposed_action none.
C14_ClassifierErrorIsFyi ==
    \A w \in Workers :
        (kind[w] = "run_email" /\ ClassifierRaised(w))
        => (state[w].triage = "fyi" /\ state[w].proposed_action = "none")

\* C15: in every run in which the model's answer was no JSON text, or JSON
\* that is no object with a string email_type, the triage label is fyi
\* (never spam or needs_reply), also when the text names a label.
C15_UnparseableIsFyi ==
    \A w \in Workers :
        (kind[w] = "run_email" /\ state[w].classifier \in {"text", "notobj"})
        => state[w].triage = "fyi"

\* the classifier's call, or the handling of its answer, raised
ClassifierFailed(w) == state[w].classifier \in {"error", "fatal", "notobj"}

\* the drafter's call raised
DrafterFailed(w) == state[w].drafter \in {"caught_error", "other_error"}

\* C16: every run_email request in which the classifier or the drafter
\* raised, whatever the error, is answered 200 with status DONE or
\* INTERRUPTED, never 500.
C16_CollaboratorFailureIsAnswered ==
    \A w \in Workers :
        (RunEmailAnswered(w) /\ (ClassifierFailed(w) \/ DrafterFailed(w)))
        => /\ resp[w].code = 200
           /\ resp[w].status \in {"DONE", "INTERRUPTED"}

\* a run in which the classifier raised and then the drafter raised an
\* error draft_reply does not catch, answered INTERRUPTED; reaching a
\* classifier that raised another exception and was answered DONE is
\* C16_WitnessFatal's part
C16_Witness ==
    \E w \in Workers :
        /\ RunEmailAnswered(w)
        /\ state[w].classifier = "error"
        /\ state[w].drafter = "other_error"
        /\ resp[w].status = "INTERRUPTED"
        /\ resp[w].payload.proposal.body = ErrorDraft

C16_WitnessFatal ==
    \E w \in Workers :
        /\ RunEmailAnswered(w)
        /\ state[w].classifier = "fatal"
        /\ resp[w].status = "DONE"

\* C17: every run executes triage, then agent, then sensitive, each once
\* and in that order: before a node runs exactly the nodes before it have
\* run, the stream ends only after all three, and the run is answered only
\* with DONE or INTERRUPTED.
C17_StagesInOrder ==
    \A w \in Workers :
        kind[w] = "run_email"
        => /\ pc[w] \in {"arrived", "triage", "agent", "sensitive", "collect", "done"}
           /\ pc[w] \in {"arrived", "triage"} => state[w].ran = <<>>
           /\ pc[w] = "agent" => state[w].ran = <<"triage">>
           /\ pc[w] = "sensitive" => state[w].ran = <<"triage", "agent">>
           /\ pc[w] \in {"collect", "done"}
                 => state[w].ran = <<"triage", "agent", "sensitive">>
           /\ pc[w] = "done" => resp[w].status \in {"DONE", "INTERRUPTED"}

\* a run that went through the three nodes and was suspended
C17_Witness ==
    \E w \in Workers :
        /\ RunEmailAnswered(w)
        /\ state[w].ran = <<"triage", "agent", "sensitive">>
        /\ resp[w].status = "INTERRUPTED"

\* the tokens under which this step stores an entry
Stored == {t \in Tokens : registered'[t] # registered[t]}

\* C18: one run_email call adds at most one entry to PENDING, whichever
\* path stores it: a step stores under at most one token, once; it is the
\* step in which a run_email handler answers, naming that token; keys come
\* into PENDING in no other way; and a handler that has answered stores
\* nothing more.
C18_AtMostOneEntry ==
    [][/\ \A t \in Stored : registered'[t] = registered[t] + 1
       /\ \A t, u \in Stored : t = u
       /\ Keys(PENDING') \ Keys(PENDING) \subseteq Stored
       /\ \A t \in Stored :
             \E w \in Workers :
                /\ kind[w] = "run_email" /\ pc[w] = "collect" /\ pc'[w] = "done"
                /\ resp'[w].status = "INTERRUPTED" /\ resp'[w].thread_id = t
       /\ \A w \in Workers :
             (kind[w] = "run_email" /\ pc[w] = "done")
             => (pc'[w] = "idle" /\ PENDING' = PENDING /\ Stored = {})]_vars

\* a call answered through the interrupt event, whose entry is the second
\* one in PENDING
C18_Witness ==
    \E w \in Workers :
        /\ RunEmailAnswered(w)
        /\ state[w].surface = "event"
        /\ registered[resp[w].thread_id] = 1
        /\ Cardinality(Keys(PENDING)) = 2

\* the items a listing of d holds, as a set
ItemsOf(d) == {ListedItem(d[i].key, d[i].entry) : i \in LiveSlots(d)}

\* nothing was registered or removed since w's listing began
Undisturbed(w) ==
    /\ registered = iter[w].registered_at_start
    /\ removals = iter[w].removals_at_start

\* C19: no step of a pending handler changes PENDING, and every listing
\* during which nothing was registered or removed answers 200 with exactly
\* the entries of PENDING, each once; so consecutive listings with no
\* registration or removal between them return the same entries.
C19_ListingReadsOnly ==
    [][/\ \A w \in Workers :
             (kind'[w] = "pending" /\ (kind[w] # "pending" \/ pc'[w] # pc[w] \/ iter'[w] # iter[w]))
             => PENDING' = PENDING
       /\ \A w \in Workers :
             (kind'[w] = "pending" /\ pc'[w] = "done" /\ Undisturbed(w)')
             => /\ resp'[w].code = 200
                /\ ListedTokens(w)' = Keys(PENDING')
                /\ {resp'[w].items[i] : i \in 1..Len(resp'[w].items)} = ItemsOf(PENDING')
                /\ Len(resp'[w].items) = Cardinality(Keys(PENDING'))]_vars

\* an undisturbed listing of two entries, answered
C19_Witness ==
    \E w \in Workers :
        /\ kind[w] = "pending" /\ pc[w] = "done"
        /\ Undisturbed(w)
        /\ Len(resp[w].items) = 2
        /\ Cardinality(Keys(PENDING)) = 2

\* C20: a listing never fails: every pending request is answered 200, also
\* when entries are registered or removed while it iterates over PENDING.
C20_ListingNeverFails ==
    \A w \in Workers :
        (kind[w] = "pending" /\ pc[w] = "done") => resp[w].code = 200

\* C21: an approve for one token never waits for an approve for another
\* token whose gm.send_email has not returned: while a handler stands in
\* its send and an approve naming a different token has arrived, the event
\* loop is free to take that approve up.
C21_SendDoesNotBlock ==
    \A w, v \in Workers :
        (/\ kind[w] = "approve" /\ pc[w] = "send"
         /\ kind[v] = "approve" /\ pc[v] = "arrived"
         /\ areq[v].thread_id # areq[w].thread_id)
        => LoopIsFree

\* C22: a run_email call that reaches the gate with send_email proposed
\* and a draft comes to its INTERRUPTED answer, the proposal then lying in
\* PENDING under the token it names, by the handler's own steps alone: no
\* approve has to happen for it to return.
C22_SuspendedRunReturns ==
    \A w \in Workers :
        (/\ kind[w] = "run_email" /\ pc[w] = "sensitive"
         /\ state[w].proposed_action = "send_email" /\ state[w].draft # <<>>)
        ~> (/\ kind[w] = "run_email" /\ pc[w] = "done"
            /\ resp[w].status = "INTERRUPTED"
            /\ Contains(PENDING, resp[w].thread_id)
            /\ Lookup(PENDING, resp[w].thread_id).value = resp[w].payload)

\* a suspended run answered while no approve request has arrived at all
C22_Witness ==
    \E w \in Workers :
        /\ RunEmailAnswered(w)
        /\ resp[w].status = "INTERRUPTED"
        /\ Contains(PENDING, resp[w].thread_id)
        /\ nreq = 1

\* C23: when the sensitive node is about to run, triage and
\* proposed_action are set, and draft is set exactly when triage is
\* needs_reply.
C23_DraftIffNeedsReply ==
    \A w \in Workers :
        (kind[w] = "run_email" /\ pc[w] = "sensitive")
        => /\ state[w].triage # ""
           /\ state[w].proposed_action # ""
           /\ state[w].draft # <<>> <=> state[w].triage = "needs_reply"

\* the fallback draft for each way the drafter's call can fail
FallbackDraft(answer) ==
    IF answer = "caught_error" THEN ThankYouDraft ELSE ErrorDraft

DrafterFailures == {"caught_error", "other_error"}

Rows(w, action) ==
    {i \in 1..Len(logged[w]) : logged[w][i].action_taken = action}

\* C25: a draft_generated row is written only for a needs_reply message
\* whose draft is the text the drafter's call returned; none is written
\* when the draft is a fallback put in after a failure or an empty reply.
C25_DraftGeneratedOnlyOnSuccess ==
    \A w \in Workers :
        (kind[w] = "run_email" /\ Rows(w, "draft_generated") # {})
        => /\ state[w].triage = "needs_reply"
           /\ state[w].drafter \in {"text", "blank"}

\* C26: every approve request answered DENIED, SENT or ERROR has written
\* an audit row.
C26_ApproveOutcomeAudited ==
    \A w \in Workers :
        (ApproveAnswered(w) /\ resp[w].status \in {"DENIED", "SENT", "ERROR"})
        => logged[w] # <<>>

\* C27: a run that has stored a proposal in PENDING wrote an
\* awaiting_approval row for its message before, and a run answered DONE
\* wrote none.
C27_AwaitingApprovalLogged ==
    \A w \in Workers :
        RunEmailAnswered(w)
        => /\ resp[w].status = "INTERRUPTED"
                 => \E i \in Rows(w, "awaiting_approval") :
                       logged[w][i].email_id = item[w].email_id
           /\ resp[w].status = "DONE" => Rows(w, "awaiting_approval") = {}

\* the thread ids in d that were generated for message e
ProposalsFor(d, e) == {t \in Keys(d) : t[1] = e}

\* C28: when run_email stores a proposal under a thread id it generated
\* (the stashed one, or the one made from the final state) while a
\* proposal for the same email_id is pending, the thread id is a new key
\* and PENDING then holds one more proposal for that message.
C28_ResubmissionAddsProposal ==
    [][\A w \in Workers :
          (/\ kind[w] = "run_email" /\ pc[w] = "collect" /\ pc'[w] = "done"
           /\ resp'[w].status = "INTERRUPTED"
           /\ state[w].surface \in {"stash", "final"}
           /\ ProposalsFor(PENDING, item[w].email_id) # {})
          => /\ resp'[w].thread_id \notin Keys(PENDING)
             /\ Cardinality(ProposalsFor(PENDING', item[w].email_id))
                   = Cardinality(ProposalsFor(PENDING, item[w].email_id)) + 1]_vars

\* C29: once the triage node has run, priority is 2 when is_vip and 1
\* when not, and proposed_action is send_email for needs_reply,
\* create_event for schedule and none for every other label, whether
\* classify_email returned or raised.
C29_TriageFieldsAgree ==
    \A w \in Workers :
        (kind[w] = "run_email" /\ state[w].ran # <<>>)
        => /\ state[w].triage \in Labels
           /\ state[w].priority = (IF state[w].is_vip THEN 2 ELSE 1)
           /\ state[w].proposed_action = "send_email" <=> state[w].triage = "needs_reply"
           /\ state[w].proposed_action = "create_event" <=> state[w].triage = "schedule"
           /\ state[w].proposed_action = "none" <=> state[w].triage \in {"fyi", "spam"}

\* a message from a VIP sender that the classifier failed on; a VIP
\* sender's message labelled schedule is C29_WitnessVip's part
C29_Witness ==
    \E w \in Workers :
        /\ kind[w] = "run_email" /\ pc[w] = "agent"
        /\ ClassifierFailed(w) /\ state[w].classifier # "error"
        /\ extract_sender_email(item[w].email_sender) = <<AliceAddr>>
        /\ state[w].priority = 1

C29_WitnessVip ==
    \E w \in Workers :
        /\ kind[w] = "run_email" /\ pc[w] = "agent"
        /\ state[w].triage = "schedule" /\ state[w].proposed_action = "create_event"
        /\ state[w].is_vip /\ state[w].priority = 2

\* the proposal the spec describes for w's message and draft
ExpectedProposal(w) ==
    [to |-> extract_sender_email(item[w].email_sender),
     subject |-> <<"Re: ">> \o item[w].email_subject,
     body |-> state[w].draft,
     original_sender |-> item[w].email_sender,
     original_subject |-> item[w].email_subject]

\* C30: the proposal a run stores in PENDING, and returns, has to = the
\* address extracted from the submitted sender, subject = "Re: " and the
\* submitted subject, body = the draft, and the submitted sender and
\* subject as original_sender and original_subject, whichever of the three
\* paths stored it.
C30_ProposalFields ==
    \A w \in Workers :
        (RunEmailAnswered(w) /\ resp[w].status = "INTERRUPTED")
        => /\ state[w].draft # <<>>
           /\ Contains(PENDING, resp[w].thread_id)
           /\ Lookup(PENDING, resp[w].thread_id).value.proposal = ExpectedProposal(w)
           /\ resp[w].payload.proposal = ExpectedProposal(w)

\* a proposal stored from the final state for a sender given with a name;
\* one for a From header without an address is C30_WitnessBare's part
C30_Witness ==
    \E w \in Workers :
        /\ RunEmailAnswered(w) /\ resp[w].status = "INTERRUPTED"
        /\ state[w].surface = "final"
        /\ item[w].email_sender = <<"Alice <", AliceAddr, ">">>
        /\ Lookup(PENDING, resp[w].thread_id).value.proposal.to = <<AliceAddr>>

C30_WitnessBare ==
    \E w \in Workers :
        /\ RunEmailAnswered(w) /\ resp[w].status = "INTERRUPTED"
        /\ state[w].surface = "final"
        /\ item[w].email_sender \in BareSenders
        /\ Lookup(PENDING, resp[w].thread_id).value.proposal.to = item[w].email_sender

\* C31: when the model call raises an error classify_email catches, the
\* label is spam if the message holds a spam keyword, else schedule if it
\* holds a scheduling keyword, else needs_reply if it holds a keyword of a
\* needed reply, else fyi.
C31_HeuristicOrder ==
    \A w \in Workers :
        (kind[w] = "run_email" /\ state[w].classifier = "error")
        => state[w].triage =
              (IF "spam" \in state[w].markers THEN "spam"
               ELSE IF "schedule" \in state[w].markers THEN "schedule"
               ELSE IF "needs_reply" \in state[w].markers THEN "needs_reply"
               ELSE "fyi")

\* a message with a scheduling keyword and a question mark, labelled
\* schedule by the keyword rules
C31_Witness ==
    \E w \in Workers :
        /\ kind[w] = "run_email" /\ state[w].classifier = "error"
        /\ state[w].markers = {"schedule", "needs_reply"}
        /\ state[w].triage = "schedule"

\* how many times email e occurs in the list l
Occurrences(l, e) == Cardinality({i \in DOMAIN l : l[i] = e})

\* the last memory_store call is a lookup for a pair whose add returned True
LookupOfAdded == vip_call.op = "is_vip" /\ vip_added[vip_call.user_id, vip_call.email] > 0
ListingOfAdded(e) == vip_call.op = "get" /\ vip_added[vip_call.user_id, e] > 0

ListedItems(w) == {resp[w].items[i] : i \in 1..Len(resp[w].items)}

\* C33: the entry a run registers carries the triage, priority and is_vip
\* that node_triage computed for its message, whichever way it was
\* registered; and in every item of a listing the priority and is_vip of the
\* payload equal those of the item, and the triage is that of a message
\* that needs a reply.
C33_ListedMetadataFromClassify ==
    /\ \A w \in Workers :
          (RunEmailAnswered(w) /\ resp[w].status = "INTERRUPTED")
          => LET entry == Lookup(PENDING, resp[w].thread_id)
             IN /\ entry.triage = state[w].triage
                /\ entry.priority = state[w].priority
                /\ entry.is_vip = state[w].is_vip
    /\ \A w \in Workers :
          (kind[w] = "pending" /\ pc[w] = "done" /\ resp[w].code = 200)
          => \A it \in ListedItems(w) :
                /\ it.triage = "needs_reply"
                /\ it.priority = it.payload.priority
                /\ it.is_vip = it.payload.is_vip

\* C34: an approve request without the x-hitl-secret header (the handler
\* read None) goes no further than the secret check: it is answered 403,
\* sends nothing and leaves the entry it names where it was, also on a
\* server without HITL_SECRET.
C34_NoHeaderIsForbidden ==
    \A w \in Workers :
        (kind[w] = "approve" /\ pc[w] \notin {"idle", "arrived"} /\ areq[w].secret = None)
        => /\ pc[w] = "done"
           /\ resp[w].code = 403
           /\ sent[w] = <<>>
           /\ removals[areq[w].thread_id] = areq[w].removals_at_arrival

\* C35: an approve whose header differs from the configured secret gets one
\* and the same response, 403 Forbidden, whether the thread id it names was
\* in PENDING or not, and no entry was read for it.
C35_ForbiddenHidesLiveness ==
    \A w \in Workers :
        (ApproveAnswered(w) /\ ~WithSecret(w))
        => /\ resp[w] = Response(403, "Forbidden")
           /\ intr[w] = NoEntry

\* a call with a wrong secret naming a thread id that was never registered,
\* answered 403
C35_Witness ==
    \E w \in Workers :
        /\ ApproveAnswered(w)
        /\ ~WithSecret(w)
        /\ ~areq[w].pending_at_arrival
        /\ registered[areq[w].thread_id] = 0
        /\ resp[w].code = 403

\* a call with a wrong secret naming a thread id that was, and still is, in
\* PENDING, answered 403
C35_WitnessLive ==
    \E w \in Workers :
        /\ ApproveAnswered(w)
        /\ ~WithSecret(w)
        /\ areq[w].pending_at_arrival
        /\ Contains(PENDING, areq[w].thread_id)
        /\ resp[w].code = 403

\* C36: an approve that called gm.send_email reports SENT exactly when the
\* Gmail API accepted the message (send_email did not return None), and
\* ERROR exactly when it did not.
C36_SentIffAccepted ==
    \A w \in Workers :
        (ApproveAnswered(w) /\ sent[w] # <<>>)
        => LET accepted == sent[w][Len(sent[w])].result # None
           IN /\ resp[w].status = "SENT" <=> accepted
              /\ resp[w].status = "ERROR" <=> ~accepted

\* C37: whenever node_triage marked the sender of a needs_reply message as
\* VIP and draft_reply was called for it, draft_reply found the sender in
\* the vip_contacts list it was given.
C37_DrafterKnowsVip ==
    \A w \in Workers :
        (kind[w] = "run_email" /\ state[w].drafter # "" /\ state[w].is_vip)
        => state[w].vip_context

C38_WitnessResubmit ==
    /\ polls = 3
    /\ "m1" \in {ids[i] : i \in DOMAIN ids}
    /\ new_emails = <<>>
    /\ processed["m1"] = <<"request_error">>
    /\ processed["m2"] = <<"loop_error">>

====
